---------------------------- MODULE Spec2Model ----------------------------
(***************************************************************************)
(* Model of the Reddit rapid-trivia bot of src/main.py: the answer matcher *)
(* (AnswerMatcher) as operators over character sequences, and the round    *)
(* life cycle driven by TriviaBot.run as a state machine.                  *)
(*                                                                         *)
(* Text is a sequence of one-character strings.  Confidence values are     *)
(* exact rationals <<numerator, denominator>>; the floats of the source    *)
(* are correctly rounded quotients of small integers, so every comparison  *)
(* the code makes has the same outcome on the rationals.                   *)
(***************************************************************************)
EXTENDS Integers, Sequences, FiniteSets, TLC

\* ------------------------------------------------------------------------
\* Bounds of the model
\* ------------------------------------------------------------------------
MaxComments == 2
MaxRounds == 2
MaxTime == 60
MaxDays == 1
MaxAnswers == 3
MaxLimit == 3
MaxLen == 2

\* ------------------------------------------------------------------------
\* Rationals
\* ------------------------------------------------------------------------
Rat(n, d) == <<n, d>>
RatGE(r, s) == r[1] * s[2] >= s[1] * r[2]
RatGT(r, s) == r[1] * s[2] > s[1] * r[2]
RatEQ(r, s) == r[1] * s[2] = s[1] * r[2]

SetMin(S) == CHOOSE x \in S : \A y \in S : x <= y
SetMax(S) == CHOOSE x \in S : \A y \in S : x >= y

\* ------------------------------------------------------------------------
\* Characters and the string primitives of Python used by the matcher
\* ------------------------------------------------------------------------
UpperSeq == <<"A","B","C","D","E","F","G","H","I","J","K","L","M","N","O","P","Q","R","S","T","U","V","W","X","Y","Z">>
LowerSeq == <<"a","b","c","d","e","f","g","h","i","j","k","l","m","n","o","p","q","r","s","t","u","v","w","x","y","z">>
Digits == {"0","1","2","3","4","5","6","7","8","9"}
Letters == {UpperSeq[i] : i \in 1..26} \cup {LowerSeq[i] : i \in 1..26}

\* str.lower() on one character
LowerOf == [c \in {UpperSeq[i] : i \in 1..26} |-> LowerSeq[CHOOSE i \in 1..26 : UpperSeq[i] = c]]
LowerChar(c) == IF c \in DOMAIN LowerOf THEN LowerOf[c] ELSE c

lower(s) == [i \in 1..Len(s) |-> LowerChar(s[i])]

\* \s of the regular expressions and the whitespace of str.strip/str.split
IsSpace(c) == c \in {" ", "\t", "\n"}
\* \w of the regular expressions
IsWordChar(c) == c \in Letters \cup Digits \cup {"_"}

\* str.strip(chars): drop leading and trailing characters that are in chars
strip_chars(s, chars) ==
    LET keep == {i \in 1..Len(s) : s[i] \notin chars}
    IN IF keep = {} THEN <<>> ELSE SubSeq(s, SetMin(keep), SetMax(keep))

\* str.strip()
strip(s) == strip_chars(s, {" ", "\t", "\n"})

\* str.split(): maximal runs of non-whitespace characters, in order
RECURSIVE split(_)
split(s) ==
    IF s = <<>> THEN <<>>
    ELSE IF IsSpace(Head(s)) THEN split(Tail(s))
    ELSE LET stops == {i \in 1..Len(s) : IsSpace(s[i])}
             n == IF stops = {} THEN Len(s) ELSE SetMin(stops) - 1
         IN <<SubSeq(s, 1, n)>> \o split(SubSeq(s, n + 1, Len(s)))

\* ' '.join(words)
RECURSIVE join(_)
join(words) ==
    IF words = <<>> THEN <<>>
    ELSE IF Len(words) = 1 THEN words[1]
    ELSE words[1] \o <<" ">> \o join(Tail(words))

\* x in y for strings: x occurs as a contiguous block of y
contains(y, x) ==
    \E i \in 0..(Len(y) - Len(x)) : \A k \in 1..Len(x) : y[i + k] = x[k]

\* html.unescape restricted to the named references amp, lt, gt and quot,
\* which Python accepts with or without the closing semicolon
entities ==
    { <<<<"a","m","p">>, "&">>, <<<<"l","t">>, "<">>,
      <<<<"g","t">>, ">">>, <<<<"q","u","o","t">>, "\"">> }

EntityAt(s) ==
    {e \in entities : Len(s) > Len(e[1]) /\ SubSeq(s, 2, Len(e[1]) + 1) = e[1]}

RECURSIVE html_unescape(_)
html_unescape(s) ==
    IF s = <<>> THEN <<>>
    ELSE IF Head(s) = "&" /\ EntityAt(s) # {}
    THEN LET e == CHOOSE x \in EntityAt(s) : TRUE
             rest == SubSeq(s, Len(e[1]) + 2, Len(s))
             rest2 == IF rest # <<>> /\ Head(rest) = ";" THEN Tail(rest) ELSE rest
         IN <<e[2]>> \o html_unescape(rest2)
    ELSE <<Head(s)>> \o html_unescape(Tail(s))

\* the replacements dictionary of normalize_text (its ASCII keys; the keys
\* outside ASCII are outside the alphabet of the model)
replacements ==
    { <<"&", <<"a","n","d">>>>, <<"+", <<"p","l","u","s">>>>,
      <<"%", <<"p","e","r","c","e","n","t">>>>, <<"$", <<"d","o","l","l","a","r">>>>,
      <<"@", <<"a","t">>>>, <<"#", <<"n","u","m","b","e","r">>>> }

RECURSIVE replace_symbols(_)
replace_symbols(s) ==
    IF s = <<>> THEN <<>>
    ELSE (IF \E r \in replacements : r[1] = Head(s)
          THEN (CHOOSE r \in replacements : r[1] = Head(s))[2]
          ELSE <<Head(s)>>) \o replace_symbols(Tail(s))

\* re.sub(r'[^\w\s\.\-\']', ' ', text)
remove_punctuation(s) ==
    [i \in 1..Len(s) |->
        IF IsWordChar(s[i]) \/ IsSpace(s[i]) \/ s[i] \in {".", "-", "'"}
        THEN s[i] ELSE " "]

\* the characters of word.strip('.,!?;:"()[]{}')
StripChars == {".", ",", "!", "?", ";", ":", "\"", "(", ")", "[", "]", "{", "}"}

abbreviations ==
    { <<<<"u","s","a">>, <<"u","n","i","t","e","d"," ","s","t","a","t","e","s"," ","o","f"," ","a","m","e","r","i","c","a">>>>,
      <<<<"u","s">>, <<"u","n","i","t","e","d"," ","s","t","a","t","e","s">>>>,
      <<<<"u","k">>, <<"u","n","i","t","e","d"," ","k","i","n","g","d","o","m">>>>,
      <<<<"u","s","s","r">>, <<"s","o","v","i","e","t"," ","u","n","i","o","n">>>>,
      <<<<"w","w","i">>, <<"w","o","r","l","d"," ","w","a","r"," ","1">>>>,
      <<<<"w","w","1">>, <<"w","o","r","l","d"," ","w","a","r"," ","1">>>>,
      <<<<"w","w","i","i">>, <<"w","o","r","l","d"," ","w","a","r"," ","2">>>>,
      <<<<"w","w","2">>, <<"w","o","r","l","d"," ","w","a","r"," ","2">>>>,
      <<<<"n","y","c">>, <<"n","e","w"," ","y","o","r","k"," ","c","i","t","y">>>>,
      <<<<"l","a">>, <<"l","o","s"," ","a","n","g","e","l","e","s">>>>,
      <<<<"s","f">>, <<"s","a","n"," ","f","r","a","n","c","i","s","c","o">>>>,
      <<<<"d","c">>, <<"w","a","s","h","i","n","g","t","o","n"," ","d","c">>>>,
      <<<<"c","a">>, <<"c","a","l","i","f","o","r","n","i","a">>>>,
      <<<<"n","y">>, <<"n","e","w"," ","y","o","r","k">>>>,
      <<<<"j","r">>, <<"j","u","n","i","o","r">>>>,
      <<<<"s","r">>, <<"s","e","n","i","o","r">>>>,
      <<<<"d","r">>, <<"d","o","c","t","o","r">>>>,
      <<<<"m","r">>, <<"m","i","s","t","e","r">>>>,
      <<<<"m","r","s">>, <<"m","i","s","s","u","s">>>>,
      <<<<"m","s">>, <<"m","i","s","s">>>>,
      <<<<"p","r","o","f">>, <<"p","r","o","f","e","s","s","o","r">>>>,
      <<<<"s","t">>, <<"s","a","i","n","t">>>>,
      <<<<"m","t">>, <<"m","o","u","n","t">>>>,
      <<<<"f","t">>, <<"f","o","r","t">>>>,
      <<<<"c","o">>, <<"c","o","m","p","a","n","y">>>>,
      <<<<"c","o","r","p">>, <<"c","o","r","p","o","r","a","t","i","o","n">>>>,
      <<<<"i","n","c">>, <<"i","n","c","o","r","p","o","r","a","t","e","d">>>>,
      <<<<"l","t","d">>, <<"l","i","m","i","t","e","d">>>>,
      <<<<"e","t","c">>, <<"e","t"," ","c","e","t","e","r","a">>>>,
      <<<<"v","s">>, <<"v","e","r","s","u","s">>>>,
      <<<<"a","k","a">>, <<"a","l","s","o"," ","k","n","o","w","n"," ","a","s">>>> }

roman_numerals ==
    { <<<<"i">>, <<"1">>>>,
      <<<<"i","i">>, <<"2">>>>,
      <<<<"i","i","i">>, <<"3">>>>,
      <<<<"i","v">>, <<"4">>>>,
      <<<<"v">>, <<"5">>>>,
      <<<<"v","i">>, <<"6">>>>,
      <<<<"v","i","i">>, <<"7">>>>,
      <<<<"v","i","i","i">>, <<"8">>>>,
      <<<<"i","x">>, <<"9">>>>,
      <<<<"x">>, <<"1","0">>>>,
      <<<<"x","i">>, <<"1","1">>>>,
      <<<<"x","i","i">>, <<"1","2">>>>,
      <<<<"x","i","i","i">>, <<"1","3">>>>,
      <<<<"x","i","v">>, <<"1","4">>>>,
      <<<<"x","v">>, <<"1","5">>>>,
      <<<<"x","v","i">>, <<"1","6">>>>,
      <<<<"x","v","i","i">>, <<"1","7">>>>,
      <<<<"x","v","i","i","i">>, <<"1","8">>>>,
      <<<<"x","i","x">>, <<"1","9">>>>,
      <<<<"x","x">>, <<"2","0">>>> }

stop_words ==
    { <<"t","h","e">>,
      <<"a">>,
      <<"a","n">>,
      <<"a","n","d">>,
      <<"o","r">>,
      <<"b","u","t">>,
      <<"i","n">>,
      <<"o","n">>,
      <<"a","t">>,
      <<"t","o">>,
      <<"f","o","r">>,
      <<"o","f">>,
      <<"w","i","t","h">>,
      <<"b","y">>,
      <<"a","s">>,
      <<"i","s">>,
      <<"w","a","s">>,
      <<"a","r","e">>,
      <<"w","e","r","e">>,
      <<"b","e">>,
      <<"b","e","e","n">>,
      <<"b","e","i","n","g">>,
      <<"h","a","v","e">>,
      <<"h","a","s">>,
      <<"h","a","d">>,
      <<"d","o">>,
      <<"d","o","e","s">>,
      <<"d","i","d">>,
      <<"w","i","l","l">>,
      <<"w","o","u","l","d">>,
      <<"c","o","u","l","d">>,
      <<"s","h","o","u","l","d">>,
      <<"m","a","y">>,
      <<"m","i","g","h","t">>,
      <<"m","u","s","t">>,
      <<"c","a","n">>,
      <<"s","h","a","l","l">> }

Lookup(table, w) == (CHOOSE p \in table : p[1] = w)[2]
InTable(table, w) == \E p \in table : p[1] = w

\* one word of the loop of normalize_text: clean_word is the word without its
\* outer punctuation
normalize_clean(word, clean_word) ==
    IF InTable(abbreviations, clean_word) THEN Lookup(abbreviations, clean_word)
    ELSE IF InTable(roman_numerals, clean_word) THEN Lookup(roman_numerals, clean_word)
    ELSE word

normalize_word(word) == normalize_clean(word, strip_chars(word, StripChars))

\* the loop over words of normalize_text
normalize_words(words) == [i \in 1..Len(words) |-> normalize_word(words[i])]

\* AnswerMatcher.normalize_text, step by step from the inside out: lower and
\* strip, html.unescape, the replacements, the punctuation, the words, the
\* join and the collapse of runs of spaces (re.sub(r'\s+', ' ', text).strip()).
\* unicodedata.normalize('NFKD') and the removal of combining characters leave
\* ASCII text as it is.
normalize_text(text) ==
    IF text = <<>> THEN <<>>
    ELSE join(split(join(normalize_words(split(remove_punctuation(
             replace_symbols(html_unescape(strip(lower(text))))))))))

\* the loop of extract_key_words over the words of the normalized text
key_words_of(words) ==
    {strip_chars(words[i], StripChars) : i \in
        {j \in 1..Len(words) : /\ Len(strip_chars(words[j], StripChars)) > 1
                               /\ strip_chars(words[j], StripChars) \notin stop_words}}

\* AnswerMatcher.extract_key_words
extract_key_words(text) == key_words_of(split(normalize_text(text)))

\* difflib.SequenceMatcher.find_longest_match without junk: the longest
\* block a[i+1..i+k] = b[j+1..j+k] inside a[alo+1..ahi], b[blo+1..bhi], the
\* one starting earliest in a and, among those, earliest in b
RECURSIVE CommonPrefix(_, _, _, _, _, _)
CommonPrefix(a, b, i, j, ahi, bhi) ==
    IF i < ahi /\ j < bhi /\ a[i + 1] = b[j + 1]
    THEN 1 + CommonPrefix(a, b, i + 1, j + 1, ahi, bhi)
    ELSE 0

find_longest_match(a, b, alo, ahi, blo, bhi) ==
    LET cand == {<<i, j>> \in (alo..(ahi - 1)) \X (blo..(bhi - 1)) : a[i + 1] = b[j + 1]}
    IN IF cand = {} THEN <<alo, blo, 0>>
       ELSE LET size(p) == CommonPrefix(a, b, p[1], p[2], ahi, bhi)
                best == SetMax({size(p) : p \in cand})
                bests == {p \in cand : size(p) = best}
                i0 == SetMin({p[1] : p \in bests})
                j0 == SetMin({p[2] : p \in {q \in bests : q[1] = i0}})
            IN <<i0, j0, best>>

\* the sum of the sizes of SequenceMatcher.get_matching_blocks
RECURSIVE matching_size(_, _, _, _, _, _)
matching_size(a, b, alo, ahi, blo, bhi) ==
    IF alo >= ahi \/ blo >= bhi THEN 0
    ELSE LET m == find_longest_match(a, b, alo, ahi, blo, bhi)
         IN IF m[3] = 0 THEN 0
            ELSE m[3] + matching_size(a, b, alo, m[1], blo, m[2])
                      + matching_size(a, b, m[1] + m[3], ahi, m[2] + m[3], bhi)

\* AnswerMatcher.similarity_score: SequenceMatcher(None, str1, str2).ratio()
similarity_score(str1, str2) ==
    IF Len(str1) + Len(str2) = 0 THEN Rat(1, 1)
    ELSE Rat(2 * matching_size(str1, str2, 0, Len(str1), 0, Len(str2)),
             Len(str1) + Len(str2))

\* remove_dots_and_spaces of is_match: re.sub(r'[\s\.]', '', text.lower())
remove_dots_and_spaces(text) ==
    SelectSeq(lower(text), LAMBDA c : ~IsSpace(c) /\ c # ".")

\* the comparison of first and last names of check_name_variations
names_match(user_words, correct_words) ==
    /\ Len(user_words) >= 2
    /\ Len(correct_words) >= 2
    /\ RatGT(similarity_score(user_words[1], correct_words[1]), Rat(8, 10))
    /\ RatGT(similarity_score(user_words[Len(user_words)],
                              correct_words[Len(correct_words)]), Rat(8, 10))

\* AnswerMatcher.check_name_variations
check_name_variations(user_answer, correct_answer) ==
    names_match(split(normalize_text(user_answer)), split(normalize_text(correct_answer)))

Verdict(m, c, t) == [is_match |-> m, confidence |-> c, match_type |-> t]

\* the first test of is_match: "if not user_answer or not correct_answer"
empty_guard(user_answer, correct_answer) ==
    user_answer = <<>> \/ correct_answer = <<>>

\* word_similarity of is_match: len(intersection) / len(union)
word_similarity(user_words, correct_words) ==
    Rat(Cardinality(user_words \cap correct_words), Cardinality(user_words \cup correct_words))

\* essential_ratio of is_match: the share of the words of the correct answer
\* longer than 3 characters that the user's words contain
essential_ratio(user_words, correct_words) ==
    Rat(Cardinality({w \in correct_words : Len(w) > 3} \cap user_words),
        Cardinality({w \in correct_words : Len(w) > 3}))

\* is_match from the fuzzy rule on: fuzzy, essential, initials, name_variation
\* and no_match
match_fuzzy(user_answer, correct_answer, user_words, correct_words, similarity) ==
    IF RatGE(similarity, Rat(8, 10)) THEN Verdict(TRUE, similarity, "fuzzy")
    ELSE IF /\ Cardinality(correct_words) > 1
            /\ {w \in correct_words : Len(w) > 3} # {}
            /\ RatGE(essential_ratio(user_words, correct_words), Rat(8, 10))
    THEN Verdict(TRUE, essential_ratio(user_words, correct_words), "essential")
    ELSE IF remove_dots_and_spaces(user_answer) = remove_dots_and_spaces(correct_answer)
    THEN Verdict(TRUE, Rat(9, 10), "initials")
    ELSE IF check_name_variations(user_answer, correct_answer)
    THEN Verdict(TRUE, Rat(85, 100), "name_variation")
    ELSE Verdict(FALSE, similarity, "no_match")

\* is_match from the key-word rule on
match_keywords(user_answer, correct_answer, user_norm, correct_norm, user_words, correct_words) ==
    IF /\ user_words # {}
       /\ correct_words # {}
       /\ RatGE(word_similarity(user_words, correct_words), Rat(7, 10))
    THEN Verdict(TRUE, word_similarity(user_words, correct_words), "keywords")
    ELSE match_fuzzy(user_answer, correct_answer, user_words, correct_words,
                     similarity_score(user_norm, correct_norm))

\* faulty variant of match_normalized: the confidence of the contains rule
\* is written as a percentage
match_normalized_percent(user_answer, correct_answer, user_norm, correct_norm) ==
    IF user_norm = correct_norm THEN Verdict(TRUE, Rat(1, 1), "exact")
    ELSE IF contains(correct_norm, user_norm) \/ contains(user_norm, correct_norm)
    THEN Verdict(TRUE, Rat(95, 1), "contains")
    ELSE match_keywords(user_answer, correct_answer, user_norm, correct_norm,
                        extract_key_words(user_answer), extract_key_words(correct_answer))

\* faulty variant of match_normalized: the contains rule looks for the
\* user's answer in the correct one only
match_normalized_one_sided(user_answer, correct_answer, user_norm, correct_norm) ==
    IF user_norm = correct_norm THEN Verdict(TRUE, Rat(1, 1), "exact")
    ELSE IF contains(correct_norm, user_norm)
    THEN Verdict(TRUE, Rat(95, 100), "contains")
    ELSE match_keywords(user_answer, correct_answer, user_norm, correct_norm,
                        extract_key_words(user_answer), extract_key_words(correct_answer))

\* faulty variant of match_normalized: the contains rule is tried first
match_normalized_contains_first(user_answer, correct_answer, user_norm, correct_norm) ==
    IF contains(correct_norm, user_norm) \/ contains(user_norm, correct_norm)
    THEN Verdict(TRUE, Rat(95, 100), "contains")
    ELSE IF user_norm = correct_norm THEN Verdict(TRUE, Rat(1, 1), "exact")
    ELSE match_keywords(user_answer, correct_answer, user_norm, correct_norm,
                        extract_key_words(user_answer), extract_key_words(correct_answer))

\* is_match from the exact rule on, given the two normalized texts
match_normalized(user_answer, correct_answer, user_norm, correct_norm) ==
    IF user_norm = correct_norm THEN Verdict(TRUE, Rat(1, 1), "exact")
    ELSE IF contains(correct_norm, user_norm) \/ contains(user_norm, correct_norm)
    THEN Verdict(TRUE, Rat(95, 100), "contains")
    ELSE match_keywords(user_answer, correct_answer, user_norm, correct_norm,
                        extract_key_words(user_answer), extract_key_words(correct_answer))

\* AnswerMatcher.is_match with the default threshold 0.8
is_match(user_answer, correct_answer) ==
    IF empty_guard(user_answer, correct_answer) THEN Verdict(FALSE, Rat(0, 1), "empty")
    ELSE match_normalized(user_answer, correct_answer,
                          normalize_text(user_answer), normalize_text(correct_answer))

\* ------------------------------------------------------------------------
\* The trivia bot
\* ------------------------------------------------------------------------
\* reference answers of the fallback questions of get_trivia_question
Paris == <<"P","a","r","i","s">>
Mars == <<"M","a","r","s">>
Rome == <<"R","o","m","e">>

\* what the question source may return as correct_answer
Answers == {Paris}
\* what a player may type as a comment
Bodies == {Paris, Mars}

\* TriviaBot.is_correct_answer: answer_matcher.is_match, whose verdicts for
\* the texts of the rounds are computed once
match_table == {<<b, a, is_match(b, a)>> : b \in Bodies, a \in Answers}
is_correct_answer(user_answer, correct_answer) ==
    IF user_answer \in Bodies /\ correct_answer \in Answers
    THEN (CHOOSE e \in match_table : e[1] = user_answer /\ e[2] = correct_answer)[3]
    ELSE is_match(user_answer, correct_answer)

BotName == "bot"
NoAuthor == "None"
Players == {"alice"}
\* comment.author of the comments that are posted: a player or the bot's own
\* account (None, a deleted account, is handled by monitor_comments below)
Authors == Players \cup {BotName}

None == 0
NoCall == [fn |-> "none"]
NoCelebration == [round |-> None]

VARIABLES
    current_question,       \* TriviaBot.current_question: 0 (None) or the number of the submission
    current_answer,         \* TriviaBot.current_answer
    question_start_time,    \* TriviaBot.question_start_time, in seconds of the clock now
    waiting_for_answer,     \* TriviaBot.waiting_for_answer
    user_stats,             \* TriviaBot.user_stats: username -> UserStats
    processed_comments,     \* TriviaBot.processed_comments: set of comment ids
    question_answers,       \* TriviaBot.question_answers
    db,                     \* the trivia_users table: the usernames that have a row
    last_daily_reset,       \* locals of run
    last_weekly_reset,
    last_monthly_reset,
    pc,                     \* where run is sleeping: "start", "loop", "won", "timeout"
    sleep_for,              \* the duration of the time.sleep in progress
    now,                    \* the clock when that sleep began, in seconds; the clock is
                            \* restarted whenever a question is posted
    today,                  \* the calendar: day, ISO week and month of datetime.now()
    posts,                  \* number of submissions made with subreddit.submit
    comments,               \* top-level comments of the current submission, in listing order
    next_id,                \* next comment id of the site
    credited,               \* history: <<round, comment id>> of every update_user_stats(.., True, ..)
    timed_out,              \* history: rounds that handle_timeout closed
    celebration,            \* the text last handed to comment.reply on a win
    op,                     \* the operation that produced the state
    call                    \* a direct call of a pure function: arguments and result

vars == <<current_question, current_answer, question_start_time, waiting_for_answer,
          user_stats, processed_comments, question_answers, db,
          last_daily_reset, last_weekly_reset, last_monthly_reset,
          pc, sleep_for, now, today, posts, comments, next_id,
          credited, timed_out, celebration, op, call>>

bot_vars == <<current_question, current_answer, question_start_time, waiting_for_answer,
              user_stats, processed_comments, question_answers>>
run_vars == <<last_daily_reset, last_weekly_reset, last_monthly_reset, pc, sleep_for, now>>
hist_vars == <<credited, timed_out, celebration>>

\* the time limit of a round tested in run ("time_elapsed >= 45")
TimeLimit == 45
\* time.sleep(2) at the end of an iteration of run
PollSleep == 2
\* time.sleep(10) before the next question
NextQuestionSleep == 10

\* UserStats(username=username): the dataclass defaults.  last_active, a
\* timestamp the bot writes and never reads, is left out.
NewUserStats ==
    [total_score |-> 0, correct_answers |-> 0, total_questions |-> 0,
     streak |-> 0, max_streak |-> 0,
     daily_score |-> 0, weekly_score |-> 0, monthly_score |-> 0]

\* base_points of calculate_points
base_points == 10

\* faulty variant of calculate_points: the tier limits are inclusive
calculate_points_inclusive(response_time) ==
    IF response_time <= 5 THEN base_points + 10
    ELSE IF response_time <= 10 THEN base_points + 7
    ELSE IF response_time <= 20 THEN base_points + 5
    ELSE IF response_time <= 35 THEN base_points + 3
    ELSE base_points + 1

\* faulty variant of calculate_points: the two fastest bonuses are exchanged
calculate_points_exchanged(response_time) ==
    IF response_time < 5 THEN base_points + 7
    ELSE IF response_time < 10 THEN base_points + 10
    ELSE IF response_time < 20 THEN base_points + 5
    ELSE IF response_time < 35 THEN base_points + 3
    ELSE base_points + 1

\* TriviaBot.calculate_points, on a response time in whole seconds
calculate_points(response_time) ==
    IF response_time < 5 THEN base_points + 10
    ELSE IF response_time < 10 THEN base_points + 7
    ELSE IF response_time < 20 THEN base_points + 5
    ELSE IF response_time < 35 THEN base_points + 3
    ELSE base_points + 1

Max2(a, b) == IF a >= b THEN a ELSE b

\* faulty variant of apply_result: max_streak is not raised on a win
apply_result_no_max(user, correct, points) ==
    IF correct
    THEN [user EXCEPT !.total_score = @ + points,
                      !.correct_answers = @ + 1,
                      !.streak = @ + 1,
                      !.daily_score = @ + points,
                      !.weekly_score = @ + points,
                      !.monthly_score = @ + points]
    ELSE [user EXCEPT !.streak = 0]

\* faulty variant of apply_result: a wrong answer does not end the streak
apply_result_keep_streak(user, correct, points) ==
    IF correct
    THEN [user EXCEPT !.total_score = @ + points,
                      !.correct_answers = @ + 1,
                      !.streak = @ + 1,
                      !.max_streak = Max2(@, user.streak + 1),
                      !.daily_score = @ + points,
                      !.weekly_score = @ + points,
                      !.monthly_score = @ + points]
    ELSE user

\* faulty variant of apply_result: the points of a win are not added to
\* total_score
apply_result_no_total(user, correct, points) ==
    IF correct
    THEN [user EXCEPT !.correct_answers = @ + 1,
                      !.streak = @ + 1,
                      !.max_streak = Max2(@, user.streak + 1),
                      !.daily_score = @ + points,
                      !.weekly_score = @ + points,
                      !.monthly_score = @ + points]
    ELSE [user EXCEPT !.streak = 0]

\* the branches of update_user_stats on a user whose total_questions has
\* been incremented
apply_result(user, correct, points) ==
    IF correct
    THEN [user EXCEPT !.total_score = @ + points,
                      !.correct_answers = @ + 1,
                      !.streak = @ + 1,
                      !.max_streak = Max2(@, user.streak + 1),
                      !.daily_score = @ + points,
                      !.weekly_score = @ + points,
                      !.monthly_score = @ + points]
    ELSE [user EXCEPT !.streak = 0]

\* TriviaBot.update_user_stats, the in-memory part
update_user_stats(stats, username, correct, response_time) ==
    [u \in DOMAIN stats \cup {username} |->
        IF u = username
        THEN apply_result([(IF username \in DOMAIN stats THEN stats[username] ELSE NewUserStats)
                              EXCEPT !.total_questions = @ + 1],
                          correct, calculate_points(response_time))
        ELSE stats[u]]

\* TriviaBot.save_user_to_db: the upsert, or the logged error when it raises.
\* Of the table only the usernames that have a row are kept: the bot never
\* reads a row back.
save_user_to_db(table, username, user, ok) ==
    IF ok THEN table \cup {username} ELSE table

\* the stable sort of get_top_matching_answers: confidence, highest first,
\* equal confidences in their order of recording
RECURSIVE insert_sorted(_, _)
insert_sorted(sorted, e) ==
    IF sorted = <<>> THEN <<e>>
    ELSE IF RatGE(Head(sorted).confidence, e.confidence)
    THEN <<Head(sorted)>> \o insert_sorted(Tail(sorted), e)
    ELSE <<e>> \o sorted

RECURSIVE sort_by_confidence(_)
sort_by_confidence(scores) ==
    IF scores = <<>> THEN <<>>
    ELSE insert_sorted(sort_by_confidence(SubSeq(scores, 1, Len(scores) - 1)),
                       scores[Len(scores)])

\* the scoring loop of get_top_matching_answers
score_data(answer_data, v) ==
    [username |-> answer_data.username, answer |-> answer_data.answer,
     confidence |-> v.confidence, match_type |-> v.match_type, is_correct |-> v.is_match]

answer_scores(answers, correct_answer) ==
    [i \in 1..Len(answers) |->
        score_data(answers[i], is_correct_answer(answers[i].answer, correct_answer))]

\* the selection loop of get_top_matching_answers over answer_scores[:limit + 2]
RECURSIVE select_top(_, _, _)
select_top(scores, limit, top_matches) ==
    IF scores = <<>> \/ Len(top_matches) >= limit THEN top_matches
    ELSE select_top(Tail(scores), limit,
                    IF RatGT(Head(scores).confidence, Rat(3, 10))
                    THEN Append(top_matches, Head(scores)) ELSE top_matches)

\* answer_scores[:limit + 2]
slice_extra(sorted, limit) ==
    SubSeq(sorted, 1, IF limit + 2 <= Len(sorted) THEN limit + 2 ELSE Len(sorted))

\* faulty variant of get_top_matching_answers: the sort is missing
get_top_matching_answers_unsorted(answers, correct_answer, limit) ==
    IF answers = <<>> THEN <<>>
    ELSE select_top(slice_extra(answer_scores(answers, correct_answer), limit), limit, <<>>)

\* TriviaBot.get_top_matching_answers: the list top_matches that the
\* returned text enumerates
get_top_matching_answers(answers, correct_answer, limit) ==
    IF answers = <<>> THEN <<>>
    ELSE CHOOSE top_matches \in
             {select_top(slice_extra(sorted, limit), limit, <<>>) :
                  sorted \in {sort_by_confidence(scores) :
                                scores \in {answer_scores(answers, correct_answer)}}} : TRUE

\* ------------------------------------------------------------------------
\* monitor_comments
\* ------------------------------------------------------------------------
\* where an adapter call may raise inside monitor_comments
FailKinds == {"me", "feedback", "encourage", "celebrate"}
NoFail == <<0, "none">>

\* faulty variant of win_outcome: the break after the celebration is missing
win_outcome_no_break(st, c, username, stats, text, fail, save_ok) ==
    [st EXCEPT !.user_stats = stats,
               !.db = save_user_to_db(st.db, username, stats[username], save_ok),
               !.credited = @ \cup {<<st.current_question, c.id>>},
               !.celebration = text,
               !.waiting_for_answer = IF fail = "celebrate" THEN @ ELSE FALSE,
               !.stop = (fail = "celebrate")]

\* the win branch of monitor_comments ("if is_correct:"), up to the break:
\* stats is user_stats after update_user_stats and text the celebration
win_outcome(st, c, username, stats, text, fail, save_ok) ==
    [st EXCEPT !.user_stats = stats,
               !.db = save_user_to_db(st.db, username, stats[username], save_ok),
               !.credited = @ \cup {<<st.current_question, c.id>>},
               !.celebration = text,
               !.waiting_for_answer = IF fail = "celebrate" THEN @ ELSE FALSE,
               !.stop = TRUE]

\* the celebration that the win branch builds
celebration_text(st, c, username, response_time, stats, fail) ==
    [round |-> st.current_question, comment |-> c.id,
     username |-> username, answer |-> c.body,
     points |-> calculate_points(response_time),
     streak |-> stats[username].streak,
     position |-> Len(st.question_answers),
     top_matches |-> get_top_matching_answers(st.question_answers, st.current_answer, 3),
     delivered |-> fail # "celebrate"]

with_celebration(st, c, username, response_time, stats, fail, save_ok) ==
    win_outcome(st, c, username, stats,
                celebration_text(st, c, username, response_time, stats, fail),
                fail, save_ok)

credit_winner(st, c, username, response_time, fail, save_ok) ==
    with_celebration(st, c, username, response_time,
                     update_user_stats(st.user_stats, username, TRUE, response_time),
                     fail, save_ok)

\* the else branch of monitor_comments after the feedback reply: stats is
\* user_stats after update_user_stats
loss_outcome(st, username, stats, fail, save_ok) ==
    [st EXCEPT !.user_stats = stats,
               !.db = save_user_to_db(st.db, username, stats[username], save_ok),
               !.stop = (fail = "encourage")]

\* the else branch of monitor_comments (a wrong answer)
record_loss(st, c, username, response_time, confidence, fail, save_ok) ==
    IF RatGT(confidence, Rat(6, 10)) /\ fail = "feedback"
    THEN [st EXCEPT !.stop = TRUE]
    ELSE loss_outcome(st, username,
                      update_user_stats(st.user_stats, username, FALSE, response_time),
                      fail, save_ok)

\* monitor_comments from the verdict v of is_correct_answer on
judge(st, c, username, response_time, v, fail, save_ok) ==
    IF v.is_match
    THEN credit_winner(st, c, username, response_time, fail, save_ok)
    ELSE record_loss(st, c, username, response_time, v.confidence, fail, save_ok)

\* monitor_comments from "username = ..." on: the answer is recorded (its
\* response_time, which nothing reads, is left out) and then judged
record_answer(st, c, username, response_time, fail, save_ok) ==
    judge([st EXCEPT !.question_answers =
                        Append(@, [username |-> username, answer |-> c.body])],
          c, username, response_time,
          is_correct_answer(c.body, st.current_answer), fail, save_ok)

\* faulty variant of process_comment: a comment is taken up again in every poll
process_comment_again(st, c, response_time, fail, save_ok) ==
    IF c.author # NoAuthor /\ fail = "me"
    THEN [st EXCEPT !.processed_comments = @ \cup {c.id}, !.stop = TRUE]
    ELSE IF c.author # NoAuthor /\ c.author = BotName
    THEN [st EXCEPT !.processed_comments = @ \cup {c.id}]
    ELSE record_answer([st EXCEPT !.processed_comments = @ \cup {c.id}], c,
                       IF c.author # NoAuthor THEN c.author ELSE "Anonymous",
                       response_time, fail, save_ok)

\* the body of the for loop of monitor_comments for one comment
process_comment(st, c, response_time, fail, save_ok) ==
    IF c.id \in st.processed_comments THEN st
    ELSE IF c.author # NoAuthor /\ fail = "me"
    THEN [st EXCEPT !.processed_comments = @ \cup {c.id}, !.stop = TRUE]
    ELSE IF c.author # NoAuthor /\ c.author = BotName
    THEN [st EXCEPT !.processed_comments = @ \cup {c.id}]
    ELSE record_answer([st EXCEPT !.processed_comments = @ \cup {c.id}], c,
                       IF c.author # NoAuthor THEN c.author ELSE "Anonymous",
                       response_time, fail, save_ok)

\* the for loop of monitor_comments from the i-th comment of the listing on;
\* the state after a comment is computed once, and the loop goes on from it
RECURSIVE monitor_loop(_, _, _, _, _, _)
monitor_loop(st, cs, i, response_time, fail, save_ok) ==
    IF i > Len(cs) \/ st.stop THEN st
    ELSE CHOOSE result \in
             {monitor_loop(after, cs, i + 1, response_time, fail, save_ok) :
                  after \in {process_comment(st, cs[i], response_time,
                                             IF fail[1] = i THEN fail[2] ELSE "none",
                                             save_ok)}} : TRUE

\* faulty variant of monitor_guard: waiting_for_answer is not tested
monitor_guard_question_only(st) == st.current_question # None

\* the guard of monitor_comments
monitor_guard(st) == st.current_question # None /\ st.waiting_for_answer

\* TriviaBot.monitor_comments at clock t on the listing cs
monitor_comments(st, cs, t, fail, save_ok) ==
    IF ~monitor_guard(st) THEN st
    ELSE IF fail[2] = "replace_more" THEN st
    ELSE monitor_loop(st, cs, 1, t - st.question_start_time, fail, save_ok)

\* the state monitor_comments works on
BotState ==
    [current_question |-> current_question, current_answer |-> current_answer,
     question_start_time |-> question_start_time,
     waiting_for_answer |-> waiting_for_answer, user_stats |-> user_stats,
     processed_comments |-> processed_comments, question_answers |-> question_answers,
     db |-> db, credited |-> credited, celebration |-> celebration, stop |-> FALSE]

Unprocessed == {i \in 1..Len(comments) : comments[i].id \notin processed_comments}
FailChoices == {NoFail, <<0, "replace_more">>} \cup (Unprocessed \X FailKinds)

\* ------------------------------------------------------------------------
\* The periodic resets at the top of the loop of run
\* ------------------------------------------------------------------------
\* TriviaBot.reset_daily_stats
reset_daily_stats(stats) == [u \in DOMAIN stats |-> [stats[u] EXCEPT !.daily_score = 0]]
\* TriviaBot.reset_weekly_stats
reset_weekly_stats(stats) == [u \in DOMAIN stats |-> [stats[u] EXCEPT !.weekly_score = 0]]
\* TriviaBot.reset_monthly_stats
reset_monthly_stats(stats) == [u \in DOMAIN stats |-> [stats[u] EXCEPT !.monthly_score = 0]]

\* the three "Check for ... reset" tests of run, applied in their order
daily_reset(stats) ==
    IF today.day > last_daily_reset THEN reset_daily_stats(stats) ELSE stats
weekly_reset(stats) ==
    IF today.week # last_weekly_reset THEN reset_weekly_stats(stats) ELSE stats
monthly_reset(stats) ==
    IF today.month # last_monthly_reset THEN reset_monthly_stats(stats) ELSE stats
period_resets(stats) == monthly_reset(weekly_reset(daily_reset(stats)))

\* the updates of last_daily_reset, last_weekly_reset and last_monthly_reset
RecordResets ==
    /\ last_daily_reset' = IF today.day > last_daily_reset THEN today.day ELSE last_daily_reset
    /\ last_weekly_reset' = today.week
    /\ last_monthly_reset' = today.month

\* the statements after the try of handle_timeout (lines 751-754)
timeout_tail(stats) == [u \in DOMAIN stats |-> [stats[u] EXCEPT !.monthly_score = 0]]

\* ------------------------------------------------------------------------
\* Initial state: TriviaBot.__init__, and run before its first statement
\* ------------------------------------------------------------------------
BotInit ==
    /\ current_question = None
    /\ current_answer = <<>>
    /\ question_start_time = 0
    /\ waiting_for_answer = FALSE
    /\ user_stats = <<>>
    /\ processed_comments = {}
    /\ question_answers = <<>>
    /\ db = {}
    /\ last_daily_reset = 0
    /\ last_weekly_reset = 0
    /\ last_monthly_reset = 0
    /\ pc = "start"
    /\ sleep_for = 0
    /\ now = 0
    /\ today = [day |-> 0, week |-> 0, month |-> 0]
    /\ posts = 0
    /\ comments = <<>>
    /\ next_id = 1
    /\ credited = {}
    /\ timed_out = {}
    /\ celebration = NoCelebration

Init ==
    /\ BotInit
    /\ op = "init"
    /\ call = NoCall

\* ------------------------------------------------------------------------
\* The environment: players and the calendar
\* ------------------------------------------------------------------------
\* a top-level comment appears on the current submission; submission.comments
\* lists the comments in their order of arrival
PostComment ==
    /\ current_question # None
    /\ next_id <= MaxComments
    /\ \E author \in Authors, body \in Bodies :
          comments' = Append(comments, [id |-> next_id, author |-> author, body |-> body,
                                        in_time |-> now < question_start_time + TimeLimit])
    /\ next_id' = next_id + 1
    /\ op' = "post_comment"
    /\ UNCHANGED <<bot_vars, db, run_vars, today, posts, hist_vars, call>>

\* midnight: the date changes, and with it possibly the ISO week and the month
NewDay ==
    /\ today.day < MaxDays
    /\ \E w \in {0, 1}, m \in {0, 1} :
          today' = [day |-> today.day + 1, week |-> today.week + w, month |-> today.month + m]
    /\ op' = "new_day"
    /\ UNCHANGED <<bot_vars, db, run_vars, posts, comments, next_id, hist_vars, call>>

\* ------------------------------------------------------------------------
\* TriviaBot.post_question and the steps of TriviaBot.run
\* ------------------------------------------------------------------------
\* post_question at clock t: the submission is made and the round opened, or
\* subreddit.submit raises and the error is logged
post_question(ok, answer, t) ==
    IF ok
    THEN /\ posts' = posts + 1
         /\ current_question' = posts + 1
         /\ current_answer' = answer
         /\ question_start_time' = 0
         /\ now' = 0
         /\ waiting_for_answer' = TRUE
         /\ question_answers' = <<>>
         /\ comments' = <<>>
    ELSE /\ UNCHANGED <<posts, current_question, current_answer, question_start_time,
                        question_answers, comments>>
         /\ waiting_for_answer' = waiting_for_answer
         /\ now' = t

\* run up to the loop: the reset marks are taken and the first question posted
Start ==
    /\ pc = "start"
    /\ \E ok \in BOOLEAN, answer \in Answers : post_question(ok, answer, now)
    /\ last_daily_reset' = today.day
    /\ last_weekly_reset' = today.week
    /\ last_monthly_reset' = today.month
    /\ pc' = "loop"
    /\ sleep_for' = 0
    /\ op' = "start"
    /\ UNCHANGED <<user_stats, processed_comments, db, today, next_id, hist_vars, call>>

\* a handle_timeout that leaves the round open
handle_timeout_keeps_waiting == TRUE

\* waiting_for_answer as the first half of handle_timeout leaves it: False
\* after the message, and False again in the except branch when the reply raises
handle_timeout_mark == FALSE

\* one iteration of run whose round has reached the time limit: handle_timeout
\* up to its time.sleep(10)
RunTimeout ==
    /\ pc = "loop"
    /\ now + sleep_for <= MaxTime
    /\ waiting_for_answer /\ current_question # None
    /\ (now + sleep_for) - question_start_time >= TimeLimit
    /\ now' = now + sleep_for
    /\ user_stats' = period_resets(user_stats)
    /\ RecordResets
    /\ timed_out' = timed_out \cup {current_question}
    /\ waiting_for_answer' = handle_timeout_mark
    /\ pc' = "timeout"
    /\ sleep_for' = NextQuestionSleep
    /\ op' = "handle_timeout"
    /\ UNCHANGED <<current_question, current_answer, question_start_time,
                   processed_comments, question_answers, db, today, posts,
                   comments, next_id, credited, celebration, call>>

\* the second half of handle_timeout: the next question after the sleep, then
\* the statements that follow the try, and the sleep that ends the iteration
PostAfterTimeout ==
    /\ pc = "timeout"
    /\ now + sleep_for <= MaxTime
    /\ posts < MaxRounds
    /\ \E ok \in BOOLEAN, answer \in Answers : post_question(ok, answer, now + sleep_for)
    /\ user_stats' = timeout_tail(user_stats)
    /\ pc' = "loop"
    /\ sleep_for' = PollSleep
    /\ op' = "post_after_timeout"
    /\ UNCHANGED <<processed_comments, db, last_daily_reset, last_weekly_reset,
                   last_monthly_reset, today, next_id, hist_vars, call>>

\* the bot takes the state st that monitor_comments returns
AfterMonitor(st) ==
    /\ user_stats' = st.user_stats
    /\ processed_comments' = st.processed_comments
    /\ question_answers' = st.question_answers
    /\ waiting_for_answer' = st.waiting_for_answer
    /\ db' = st.db
    /\ credited' = st.credited
    /\ celebration' = st.celebration

\* faulty variant of next_after_monitor: the next question is posted after
\* every poll
next_after_monitor_always(waiting) == "won"

\* the test "if not self.waiting_for_answer" that follows monitor_comments in run
next_after_monitor(waiting) == IF waiting THEN "loop" ELSE "won"

\* one iteration of run inside the time limit: monitor_comments, then either
\* the sleep of the loop or the sleep before the next question
RunMonitor ==
    /\ pc = "loop"
    /\ now + sleep_for <= MaxTime
    /\ waiting_for_answer /\ current_question # None
    /\ (now + sleep_for) - question_start_time < TimeLimit
    /\ now' = now + sleep_for
    /\ RecordResets
    /\ \E fail \in FailChoices, save_ok \in BOOLEAN :
       \E before \in {[BotState EXCEPT !.user_stats = period_resets(user_stats)]} :
       \E after \in {monitor_comments(before, comments, now + sleep_for, fail, save_ok)} :
          AfterMonitor(after)
    /\ pc' = next_after_monitor(waiting_for_answer')
    /\ sleep_for' = IF pc' = "won" THEN NextQuestionSleep ELSE PollSleep
    /\ op' = "monitor_comments"
    /\ UNCHANGED <<current_question, current_answer, question_start_time, today, posts,
                   comments, next_id, timed_out, call>>

\* the rest of the iteration after a win: the next question after the sleep
PostAfterWin ==
    /\ pc = "won"
    /\ now + sleep_for <= MaxTime
    /\ posts < MaxRounds
    /\ \E ok \in BOOLEAN, answer \in Answers : post_question(ok, answer, now + sleep_for)
    /\ pc' = "loop"
    /\ sleep_for' = PollSleep
    /\ op' = "post_after_win"
    /\ UNCHANGED <<user_stats, processed_comments, db, last_daily_reset, last_weekly_reset,
                   last_monthly_reset, today, next_id, hist_vars, call>>

\* one iteration of run with no round open: only the resets and the sleep
RunIdle ==
    /\ pc = "loop"
    /\ now + sleep_for <= MaxTime
    /\ ~(waiting_for_answer /\ current_question # None)
    /\ now' = now + sleep_for
    /\ user_stats' = period_resets(user_stats)
    /\ RecordResets
    /\ sleep_for' = PollSleep
    /\ op' = "idle"
    /\ UNCHANGED <<current_question, current_answer, question_start_time, waiting_for_answer,
                   processed_comments, question_answers, db, pc, today, posts,
                   comments, next_id, hist_vars, call>>

Next ==
    \/ Start
    \/ PostComment
    \/ RunMonitor
    \/ RunTimeout
    \/ PostAfterTimeout
    \/ PostAfterWin
    \/ RunIdle

Spec == Init /\ [][Next]_vars

\* ------------------------------------------------------------------------
\* monitor_comments called on the bot object by a caller other than run, at
\* a moment when no round is open
\* ------------------------------------------------------------------------
MonitorCommentsCall ==
    /\ current_question = None \/ ~waiting_for_answer
    /\ \E fail \in FailChoices, save_ok \in BOOLEAN :
          AfterMonitor(monitor_comments(BotState, comments, now, fail, save_ok))
    /\ op' = "call_monitor_comments"
    /\ UNCHANGED <<current_question, current_answer, question_start_time, run_vars, today,
                   posts, comments, next_id, timed_out, call>>

NextCalls ==
    \/ Next
    \/ MonitorCommentsCall

SpecCalls == Init /\ [][NextCalls]_vars

\* ------------------------------------------------------------------------
\* The matcher on its own: is_match applied to a pair of texts
\* ------------------------------------------------------------------------
Alphabet == {"a", "b", " ", "?", "."}

RECURSIVE Texts(_)
Texts(n) ==
    IF n = 0 THEN {<<>>}
    ELSE LET shorter == Texts(n - 1)
         IN shorter \cup {Append(s, c) : s \in shorter, c \in Alphabet}

InitMatch ==
    /\ BotInit
    /\ op = "init"
    /\ \E u \in Texts(MaxLen), c \in Texts(MaxLen) :
          call = [fn |-> "is_match", user_answer |-> u, correct_answer |-> c, done |-> FALSE]

CallIsMatch ==
    /\ call.fn = "is_match"
    /\ ~call.done
    /\ call' = [fn |-> "is_match", user_answer |-> call.user_answer,
                correct_answer |-> call.correct_answer, done |-> TRUE,
                result |-> is_match(call.user_answer, call.correct_answer)]
    /\ op' = "is_match"
    /\ UNCHANGED <<bot_vars, db, run_vars, today, posts, comments, next_id, hist_vars>>

SpecMatch == InitMatch /\ [][CallIsMatch]_vars

\* ------------------------------------------------------------------------
\* The near-miss ranking on its own: get_top_matching_answers applied to a
\* list of recorded answers and a limit
\* ------------------------------------------------------------------------
RankNames == {"alice", "Anonymous"}
RankBodies == {Paris, Mars, Rome}
RankEntries == {[username |-> u, answer |-> b] : u \in RankNames, b \in RankBodies}

RECURSIVE AnswerLists(_)
AnswerLists(n) ==
    IF n = 0 THEN {<<>>}
    ELSE LET shorter == AnswerLists(n - 1)
         IN shorter \cup {Append(s, e) : s \in shorter, e \in RankEntries}

InitRank ==
    /\ current_question = 1
    /\ current_answer = Paris
    /\ question_start_time = 0
    /\ waiting_for_answer = TRUE
    /\ user_stats = <<>>
    /\ processed_comments = {}
    /\ question_answers \in AnswerLists(MaxAnswers)
    /\ db = {}
    /\ last_daily_reset = 0
    /\ last_weekly_reset = 0
    /\ last_monthly_reset = 0
    /\ pc = "loop"
    /\ sleep_for = PollSleep
    /\ now = 0
    /\ today = [day |-> 0, week |-> 0, month |-> 0]
    /\ posts = 1
    /\ comments = <<>>
    /\ next_id = 1
    /\ credited = {}
    /\ timed_out = {}
    /\ celebration = NoCelebration
    /\ op = "init"
    /\ \E limit \in 0..MaxLimit :
          call = [fn |-> "get_top_matching_answers", limit |-> limit, done |-> FALSE]

CallTopMatching ==
    /\ call.fn = "get_top_matching_answers"
    /\ ~call.done
    /\ call' = [fn |-> "get_top_matching_answers", limit |-> call.limit, done |-> TRUE,
                result |-> get_top_matching_answers(question_answers, current_answer,
                                                    call.limit)]
    /\ op' = "get_top_matching_answers"
    /\ UNCHANGED <<bot_vars, db, run_vars, today, posts, comments, next_id, hist_vars>>

SpecRank == InitRank /\ [][CallTopMatching]_vars

\* ------------------------------------------------------------------------
\* Properties
\* ------------------------------------------------------------------------
\* the comments of the current submission written by players
PlayerComments == {i \in 1..Len(comments) : comments[i].author # BotName}

\* the comments of the current submission the bot has not looked at
LateComments == {i \in PlayerComments : comments[i].id \notin processed_comments}

\* C1: in every round at most one submission is credited as the winner, over
\* any sequence of polls, including those in which the celebration reply or
\* the save to the database fails.
C1_AtMostOneWinner ==
    \A e1 \in credited : \A e2 \in credited : e1[1] = e2[1] => e1 = e2

\* C2: the submission credited as the winner of a round is the first one, in
\* the order monitor_comments observes them, that is_match classifies as a
\* match: every submission recorded before it in the round was no match.
C2_FirstCorrectWins ==
    (celebration.round # None /\ celebration.round = current_question) =>
        \A j \in 1..(celebration.position - 1) :
            ~is_correct_answer(question_answers[j].answer, current_answer).is_match

\* C3: no round has both a credited winner and a timeout.
C3_TimeoutExclusive ==
    \A r \in timed_out : \A e \in credited : e[1] # r

\* C4: is_match returns (False, 0, "empty") whenever the candidate or the
\* reference is empty, whitespace-only or normalizes to the empty string.
C4_EmptyGuard ==
    (/\ call.fn = "is_match"
     /\ call.done
     /\ \/ normalize_text(call.user_answer) = <<>>
        \/ normalize_text(call.correct_answer) = <<>>)
    => /\ ~call.result.is_match
       /\ RatEQ(call.result.confidence, Rat(0, 1))
       /\ call.result.match_type = "empty"

\* C5: whenever run times a round out, no comment a player posted on that
\* round before the 45-second deadline is a match for the answer.
C5_TimeoutOnlyWithoutMatch ==
    pc = "timeout" =>
        \A i \in PlayerComments :
            comments[i].in_time =>
                ~is_correct_answer(comments[i].body, current_answer).is_match

\* C6: post_question is executed only while waiting_for_answer is False, so
\* an open round is never overwritten by a new question.
C6_PostOnlyWhenClosed ==
    [][op' \in {"start", "post_after_win", "post_after_timeout"} => ~waiting_for_answer]_vars

C6_Witness ==
    /\ op = "post_after_win"
    /\ current_question = 2
    /\ waiting_for_answer

\* C7 as stated: every submission made to a round, those observed after the
\* winning one included, is in the round's recorded answers when the round
\* gives way to the next question.
C7_AllSubmissionsRecorded ==
    [][(op' = "post_after_win" /\ posts' # posts) =>
          Len(question_answers) = Cardinality(PlayerComments)]_vars

\* C7, amended: in a round closed by a delivered celebration the winning
\* submission is the last recorded answer: what is listed after it or arrives
\* later is neither classified nor stored.
C7_WinnerIsLastRecorded ==
    (/\ celebration.round # None
     /\ celebration.round = current_question
     /\ celebration.delivered
     /\ ~waiting_for_answer)
    => celebration.position = Len(question_answers)

C7_Witness ==
    /\ pc = "won"
    /\ celebration.round = current_question
    /\ celebration.delivered
    /\ LateComments # {}

\* C8: monitor_comments called with no current question or with
\* waiting_for_answer False leaves the recorded answers, the processed
\* comments, the statistics and the round state unchanged.
C8_ClosedRoundNoOp ==
    [][(op' = "call_monitor_comments" /\ ~(current_question # None /\ waiting_for_answer))
          => UNCHANGED <<bot_vars, db, credited, celebration>>]_vars

C8_Witness ==
    /\ op = "call_monitor_comments"
    /\ current_question # None
    /\ ~waiting_for_answer
    /\ LateComments # {}

\* C9: the submission that won the round never appears in the top-matching
\* list of the celebration.
C9_WinnerNotInTopMatches ==
    celebration.round # None =>
        \A k \in 1..Len(celebration.top_matches) :
            ~(/\ celebration.top_matches[k].username = celebration.username
              /\ celebration.top_matches[k].answer = celebration.answer)

\* the ranking stated on its own: the recorded answers with confidence above
\* 0.3, by confidence descending and, among equals, by order of recording
Qualifying(scores) ==
    {i \in 1..Len(scores) : RatGT(scores[i].confidence, Rat(3, 10))}

RanksBefore(scores, i, j) ==
    \/ RatGT(scores[i].confidence, scores[j].confidence)
    \/ RatEQ(scores[i].confidence, scores[j].confidence) /\ i < j

RankOf(scores, i) ==
    1 + Cardinality({j \in Qualifying(scores) : RanksBefore(scores, j, i)})

Ranking(scores, limit) ==
    [k \in 1..(IF limit <= Cardinality(Qualifying(scores))
               THEN limit ELSE Cardinality(Qualifying(scores))) |->
        scores[CHOOSE i \in Qualifying(scores) : RankOf(scores, i) = k]]

\* C10: get_top_matching_answers returns exactly the first limit entries of
\* the recorded answers with confidence > 0.3, ordered by confidence
\* descending with ties broken by earlier recording.
C10_RankingExact ==
    (call.fn = "get_top_matching_answers" /\ call.done) =>
        call.result = Ranking(answer_scores(question_answers, current_answer), call.limit)

\* three qualifying answers, two of them tied and out of order, and a limit of 2
C10_Witness ==
    /\ call.fn = "get_top_matching_answers"
    /\ call.done
    /\ call.limit = 2
    /\ Len(question_answers) = 3
    /\ question_answers[1].answer = Mars
    /\ question_answers[2].answer = Paris
    /\ question_answers[3].answer = Paris
    /\ Len(call.result) = 2

\* ------------------------------------------------------------------------
\* The run loop across midnight: a round opened after alice has won an
\* earlier one at its first poll, with the calendar moving and no comment
\* arriving
\* ------------------------------------------------------------------------
InitDays ==
    /\ current_question = 1
    /\ current_answer = Paris
    /\ question_start_time = 0
    /\ waiting_for_answer = TRUE
    /\ user_stats = update_user_stats(<<>>, "alice", TRUE, PollSleep)
    /\ processed_comments = {}
    /\ question_answers = <<>>
    /\ db = {"alice"}
    /\ last_daily_reset = 0
    /\ last_weekly_reset = 0
    /\ last_monthly_reset = 0
    /\ pc = "loop"
    /\ sleep_for = PollSleep
    /\ now = 0
    /\ today = [day |-> 0, week |-> 0, month |-> 0]
    /\ posts = 1
    /\ comments = <<>>
    /\ next_id = 1
    /\ credited = {}
    /\ timed_out = {}
    /\ celebration = NoCelebration
    /\ op = "init"
    /\ call = NoCall

NextDays ==
    \/ NewDay
    \/ RunMonitor
    \/ RunTimeout
    \/ PostAfterTimeout
    \/ RunIdle

SpecDays == InitDays /\ [][NextDays]_vars

\* an iteration of run begins: its three reset tests are evaluated
IterationStep == op' \in {"monitor_comments", "handle_timeout", "idle"}
DailyResetFires == IterationStep /\ today.day > last_daily_reset
WeeklyResetFires == IterationStep /\ today.week # last_weekly_reset
MonthlyResetFires == IterationStep /\ today.month # last_monthly_reset
\* a win is credited in the step
WinCredited == op' = "monitor_comments" /\ credited' # credited

\* C11: a player's daily, weekly and monthly score change only when a win
\* adds its points or when the corresponding periodic reset fires; handling a
\* round timeout leaves every player's statistics unchanged.
C11_BucketsFrame ==
    [][/\ \A u \in DOMAIN user_stats :
             /\ u \in DOMAIN user_stats'
             /\ user_stats'[u].daily_score # user_stats[u].daily_score
                   => (WinCredited \/ DailyResetFires)
             /\ user_stats'[u].weekly_score # user_stats[u].weekly_score
                   => (WinCredited \/ WeeklyResetFires)
             /\ user_stats'[u].monthly_score # user_stats[u].monthly_score
                   => (WinCredited \/ MonthlyResetFires)
       /\ op' = "post_after_timeout" => user_stats' = user_stats]_vars

\* ------------------------------------------------------------------------
\* update_user_stats on its own: a sequence of win and loss updates
\* ------------------------------------------------------------------------
MaxUpdates == 3
StatNames == {"alice", "Anonymous"}
\* response times of the updates, one in each of three reward tiers
ResponseTimes == {PollSleep, NextQuestionSleep, TimeLimit - 1}

InitStats ==
    /\ BotInit
    /\ op = "init"
    /\ call = [fn |-> "update_user_stats", n |-> 0]

\* TriviaBot.update_user_stats(username, correct, response_time), with the
\* save to the database that ends it
CallUpdateUserStats ==
    /\ call.fn = "update_user_stats"
    /\ call.n < MaxUpdates
    /\ \E username \in StatNames, correct \in BOOLEAN, response_time \in ResponseTimes,
          ok \in BOOLEAN :
          /\ user_stats' = update_user_stats(user_stats, username, correct, response_time)
          /\ db' = save_user_to_db(db, username, user_stats'[username], ok)
          /\ call' = [fn |-> "update_user_stats", n |-> call.n + 1, username |-> username,
                      correct |-> correct, response_time |-> response_time]
    /\ op' = "update_user_stats"
    /\ UNCHANGED <<current_question, current_answer, question_start_time, waiting_for_answer,
                   processed_comments, question_answers, run_vars, today, posts, comments,
                   next_id, hist_vars>>

SpecStats == InitStats /\ [][CallUpdateUserStats]_vars

\* C12: for every player, after any sequence of win and loss updates,
\* max_streak >= streak, and max_streak never decreases from one update to
\* the next.
C12_StreakInvariant ==
    [][\A u \in DOMAIN user_stats' :
          /\ user_stats'[u].max_streak >= user_stats'[u].streak
          /\ u \in DOMAIN user_stats => user_stats'[u].max_streak >= user_stats[u].max_streak]_vars

\* two wins and then a loss: the streak is back to 0 below max_streak
C12_Witness ==
    /\ call.fn = "update_user_stats"
    /\ "alice" \in DOMAIN user_stats
    /\ user_stats["alice"].streak = 0
    /\ user_stats["alice"].max_streak = 2

\* the statistics of a player before an update: the entry, or the defaults of
\* a player not seen before
StatsBefore(stats, u) == IF u \in DOMAIN stats THEN stats[u] ELSE NewUserStats

\* C13: a win update increases streak, correct_answers and total_questions
\* by exactly 1; a non-winning update sets the streak to 0, increases
\* total_questions by 1 and leaves total_score, correct_answers, max_streak
\* and the score buckets unchanged.
C13_UpdateEffect ==
    [][op' = "update_user_stats" =>
          IF call'.correct
          THEN /\ user_stats'[call'.username].streak =
                     StatsBefore(user_stats, call'.username).streak + 1
               /\ user_stats'[call'.username].correct_answers =
                     StatsBefore(user_stats, call'.username).correct_answers + 1
               /\ user_stats'[call'.username].total_questions =
                     StatsBefore(user_stats, call'.username).total_questions + 1
          ELSE user_stats'[call'.username] =
                  [StatsBefore(user_stats, call'.username) EXCEPT
                      !.streak = 0, !.total_questions = @ + 1]]_vars

\* a loss update on a player who had a streak and points
C13_Witness ==
    /\ call.fn = "update_user_stats"
    /\ call.n = 2
    /\ ~call.correct
    /\ user_stats[call.username].streak = 0
    /\ user_stats[call.username].total_score > 0
    /\ user_stats[call.username].total_questions = 2

\* ------------------------------------------------------------------------
\* calculate_points on its own, applied to two response times in seconds
\* ------------------------------------------------------------------------
MaxResponse == 45

InitPoints ==
    /\ BotInit
    /\ op = "init"
    /\ \E t1 \in 0..MaxResponse, t2 \in 0..MaxResponse :
          call = [fn |-> "calculate_points", t1 |-> t1, t2 |-> t2, done |-> FALSE]

CallCalculatePoints ==
    /\ call.fn = "calculate_points"
    /\ ~call.done
    /\ call' = [fn |-> "calculate_points", t1 |-> call.t1, t2 |-> call.t2, done |-> TRUE,
                points1 |-> calculate_points(call.t1),
                points2 |-> calculate_points(call.t2)]
    /\ op' = "calculate_points"
    /\ UNCHANGED <<bot_vars, db, run_vars, today, posts, comments, next_id, hist_vars>>

SpecPoints == InitPoints /\ [][CallCalculatePoints]_vars

\* the reward tiers as the specification lists them
RewardTier(t) ==
    IF t < 5 THEN 20
    ELSE IF t < 10 THEN 17
    ELSE IF t < 20 THEN 15
    ELSE IF t < 35 THEN 13
    ELSE 11

\* C14: calculate_points is the tier function of the response time: 20 if
\* t < 5, 17 if 5 <= t < 10, 15 if 10 <= t < 20, 13 if 20 <= t < 35 and 11
\* otherwise; exactly 5 seconds gives 17.
C14_RewardTiers ==
    (call.fn = "calculate_points" /\ call.done) =>
        /\ call.points1 = RewardTier(call.t1)
        /\ call.t1 = 5 => call.points1 = 17

C14_Witness ==
    /\ call.fn = "calculate_points"
    /\ call.done
    /\ call.t1 = 5
    /\ call.points1 = 17

\* C15: for all response times t1 < t2 in [0, 45],
\* calculate_points(t1) >= calculate_points(t2).
C15_RewardMonotone ==
    (/\ call.fn = "calculate_points"
     /\ call.done
     /\ call.t1 < call.t2
     /\ call.t2 <= 45)
    => call.points1 >= call.points2

\* two response times on either side of the 5-second step
C15_Witness ==
    /\ call.fn = "calculate_points"
    /\ call.done
    /\ call.t1 = 4
    /\ call.t2 = 5
    /\ call.points1 > call.points2

\* ------------------------------------------------------------------------
\* normalize_text on its own, applied to a text and then to its own result
\* ------------------------------------------------------------------------
MaxWords == 2
\* words of the texts: entries of the abbreviation and Roman-numeral tables,
\* a title with its dot, an HTML entity and plain words
NormWords ==
    { <<"d","c">>, <<"u","s","a">>, <<"i","v">>, <<"D","r",".">>, <<"x",".">>,
      <<"&","a","m","p",";">>, <<"a">>, Paris }

RECURSIVE WordLists(_)
WordLists(n) ==
    IF n = 0 THEN {<<>>}
    ELSE LET shorter == WordLists(n - 1)
         IN shorter \cup {Append(s, w) : s \in shorter, w \in NormWords}

InitNorm ==
    /\ BotInit
    /\ op = "init"
    /\ \E words \in WordLists(MaxWords) :
          call = [fn |-> "normalize_text", text |-> join(words), done |-> FALSE]

CallNormalizeText ==
    /\ call.fn = "normalize_text"
    /\ ~call.done
    /\ call' = [fn |-> "normalize_text", text |-> call.text, done |-> TRUE,
                once |-> normalize_text(call.text),
                twice |-> normalize_text(normalize_text(call.text))]
    /\ op' = "normalize_text"
    /\ UNCHANGED <<bot_vars, db, run_vars, today, posts, comments, next_id, hist_vars>>

SpecNorm == InitNorm /\ [][CallNormalizeText]_vars

\* C16: normalize_text(normalize_text(x)) = normalize_text(x) for every text
\* x, the entries of the abbreviation and Roman-numeral tables included.
C16_NormalizeIdempotent ==
    (call.fn = "normalize_text" /\ call.done) => call.twice = call.once

\* ------------------------------------------------------------------------
\* The matcher on answers of the kind the questions have: names, initials,
\* reordered and misspelt words
\* ------------------------------------------------------------------------
WilliamShakespeare == <<"W","i","l","l","i","a","m"," ","S","h","a","k","e","s","p","e","a","r","e">>
WShakespeare == <<"W","."," ","S","h","a","k","e","s","p","e","a","r","e">>
ShakespeareWilliam == <<"S","h","a","k","e","s","p","e","a","r","e"," ","W","i","l","l","i","a","m">>
ParisFrance == <<"P","a","r","i","s"," ","F","r","a","n","c","e">>
JohnSmith == <<"J","o","h","n"," ","S","m","i","t","h">>
JonXavierSmit == <<"J","o","n"," ","X","a","v","i","e","r"," ","S","m","i","t">>
SmithAndOldJohn == <<"s","m","i","t","h"," ","a","n","d"," ","o","l","d"," ","j","o","h","n">>
JonSmith == <<"J","o","n"," ","S","m","i","t","h">>
JRRDotted == <<"J",".","R",".","R",".">>
JRR == <<"J","R","R">>

Phrases ==
    { Paris, lower(Paris), ParisFrance, WilliamShakespeare, WShakespeare, ShakespeareWilliam,
      JohnSmith, JonXavierSmit, SmithAndOldJohn, JonSmith, JRRDotted, JRR, <<>>, <<"?">> }

InitPhrases ==
    /\ BotInit
    /\ op = "init"
    /\ \E u \in Phrases, c \in Phrases :
          call = [fn |-> "is_match", user_answer |-> u, correct_answer |-> c, done |-> FALSE]

SpecPhrases == InitPhrases /\ [][CallIsMatch]_vars

\* the rules of the cascade, each stated on its own
RuleHolds(rule, a, b) ==
    CASE rule = "exact" -> normalize_text(a) = normalize_text(b)
      [] rule = "contains" -> \/ contains(normalize_text(b), normalize_text(a))
                              \/ contains(normalize_text(a), normalize_text(b))
      [] rule = "keywords" -> /\ extract_key_words(a) # {}
                              /\ extract_key_words(b) # {}
                              /\ RatGE(word_similarity(extract_key_words(a), extract_key_words(b)),
                                       Rat(7, 10))
      [] rule = "fuzzy" -> RatGE(similarity_score(normalize_text(a), normalize_text(b)),
                                 Rat(8, 10))
      [] rule = "essential" -> /\ Cardinality(extract_key_words(b)) > 1
                               /\ \E w \in extract_key_words(b) : Len(w) > 3
                               /\ RatGE(essential_ratio(extract_key_words(a), extract_key_words(b)),
                                        Rat(8, 10))
      [] rule = "initials" -> remove_dots_and_spaces(a) = remove_dots_and_spaces(b)
      [] rule = "name_variation" -> check_name_variations(a, b)

CascadeOrder ==
    <<"exact", "contains", "keywords", "fuzzy", "essential", "initials", "name_variation">>

RulesHolding(a, b) == {i \in 1..Len(CascadeOrder) : RuleHolds(CascadeOrder[i], a, b)}

FirstRule(holding) == IF holding = {} THEN "no_match" ELSE CascadeOrder[SetMin(holding)]

\* C17: for non-empty inputs the verdict is that of the first rule whose
\* condition holds in the order exact, contains, keywords, fuzzy, essential,
\* initials, name_variation, and no_match only if none holds; when the
\* normalized texts are equal the verdict is exact with confidence 1.0.
C17_CascadeOrder ==
    (/\ call.fn = "is_match"
     /\ call.done
     /\ call.user_answer # <<>>
     /\ call.correct_answer # <<>>)
    => /\ call.result.match_type =
             FirstRule(RulesHolding(call.user_answer, call.correct_answer))
       /\ call.result.is_match = (call.result.match_type # "no_match")
       /\ normalize_text(call.user_answer) = normalize_text(call.correct_answer)
             => /\ call.result.match_type = "exact"
                /\ RatEQ(call.result.confidence, Rat(1, 1))

\* the key-word rule decides although the essential rule holds as well
C17_Witness ==
    /\ call.fn = "is_match"
    /\ call.done
    /\ call.user_answer = ShakespeareWilliam
    /\ call.result.match_type = "keywords"
    /\ RuleHolds("essential", call.user_answer, call.correct_answer)

MatchTypes ==
    {"exact", "contains", "keywords", "fuzzy", "essential", "initials", "name_variation",
     "no_match", "empty"}

\* C18: every verdict of is_match has a confidence in [0, 1] and a match type
\* of the enumeration, and is_match is false exactly when the type is
\* no_match or empty; every pair of inputs has a verdict.
C18_VerdictWellFormed ==
    (call.fn = "is_match" /\ call.done) =>
        /\ DOMAIN call.result = {"is_match", "confidence", "match_type"}
        /\ call.result.is_match \in BOOLEAN
        /\ call.result.confidence[2] > 0
        /\ RatGE(call.result.confidence, Rat(0, 1))
        /\ RatGE(Rat(1, 1), call.result.confidence)
        /\ call.result.match_type \in MatchTypes
        /\ call.result.is_match = (call.result.match_type \notin {"no_match", "empty"})

\* a verdict no_match whose confidence lies strictly between 0 and 1
C18_Witness ==
    /\ call.fn = "is_match"
    /\ call.done
    /\ call.result.match_type = "no_match"
    /\ RatGT(call.result.confidence, Rat(0, 1))
    /\ RatGT(Rat(1, 1), call.result.confidence)

\* C19: if is_match(a, b) is decided by the exact or the contains rule then
\* is_match(b, a) is decided by the same rule with the same is_match and
\* confidence.
C19_ExactContainsSymmetric ==
    (/\ call.fn = "is_match"
     /\ call.done
     /\ call.result.match_type \in {"exact", "contains"})
    => /\ is_match(call.correct_answer, call.user_answer).match_type = call.result.match_type
       /\ is_match(call.correct_answer, call.user_answer).is_match = call.result.is_match
       /\ RatEQ(is_match(call.correct_answer, call.user_answer).confidence,
                call.result.confidence)

\* a candidate that contains the reference without being equal to it
C19_Witness ==
    /\ call.fn = "is_match"
    /\ call.done
    /\ call.user_answer = ParisFrance
    /\ call.correct_answer = Paris
    /\ call.result.match_type = "contains"

\* C20: with reference "William Shakespeare" the candidate "W. Shakespeare"
\* is a match of type initials or name_variation with confidence >= 0.85.
C20_InitialsAccepted ==
    (/\ call.fn = "is_match"
     /\ call.done
     /\ call.user_answer = WShakespeare
     /\ call.correct_answer = WilliamShakespeare)
    => /\ call.result.is_match
       /\ call.result.match_type \in {"initials", "name_variation"}
       /\ RatGE(call.result.confidence, Rat(85, 100))

\* ------------------------------------------------------------------------
\* Progress of the run loop
\* ------------------------------------------------------------------------
\* a round is open: the test of run before the timeout check (line 787)
RoundOpen == waiting_for_answer /\ current_question # None

\* run iterates with no round open: nothing in the loop calls post_question
\* (it is called only by handle_timeout and after a win, both inside the
\* branch of an open round)
LoopIdle == pc = "loop" /\ ~RoundOpen

\* C21: after a round becomes terminal the run loop eventually opens a new
\* round, also when posting the next question fails: the bot never reaches a
\* state from which no further question is ever posted.
C21_NeverStuck == current_question # None => ~LoopIdle

\* the first round, from the start of run to the end of the round: the bot
\* with the next question left out
NextRound ==
    \/ Start
    \/ PostComment
    \/ RunMonitor
    \/ RunTimeout
    \/ RunIdle

\* one step of the single thread that executes run: the loop pauses only in
\* its own sleeps, so an iteration that stays possible is taken
RunStep ==
    \/ Start
    \/ RunMonitor
    \/ RunTimeout
    \/ RunIdle

\* the first round with a run loop that keeps iterating while the clock advances
SpecRound == Init /\ [][NextRound]_vars /\ WF_vars(RunStep)

\* C22: every open round eventually becomes terminal: while the run loop keeps
\* iterating, a round with waiting_for_answer True is eventually won or timed
\* out (waiting_for_answer False), whatever errors the polls or the timeout
\* reply raise.
C22_OpenRoundEnds == RoundOpen ~> ~waiting_for_answer

\* round 1 was open beyond the time limit without a winner and has been closed
\* by handle_timeout
C22_Witness ==
    /\ current_question = 1
    /\ ~waiting_for_answer
    /\ 1 \in timed_out
    /\ credited = {}
    /\ now >= TimeLimit

\* ------------------------------------------------------------------------
\* Submissions and the polls that process them
\* ------------------------------------------------------------------------
\* the comments of a player on the current submission that a poll has taken
\* up: their id is in processed_comments (line 618)
Observed(u) ==
    {i \in PlayerComments : comments[i].author = u /\ comments[i].id \in processed_comments}

\* the answers of a player in question_answers
Recorded(u) == {k \in 1..Len(question_answers) : question_answers[k].username = u}

\* total_questions of a player, 0 before the first update creates the entry
TotalQuestions(stats, u) == IF u \in DOMAIN stats THEN stats[u].total_questions ELSE 0

\* C23: no submission is lost: every comment of a player that a poll of the
\* open round has observed is recorded in question_answers and applied to
\* the player's statistics, also when an adapter call aborts the poll (in the
\* first round the statistics hold no earlier answers, so total_questions
\* counts the observed comments).
C23_NoSubmissionLost ==
    \A u \in Players :
        /\ Cardinality(Recorded(u)) = Cardinality(Observed(u))
        /\ posts = 1 => TotalQuestions(user_stats, u) = Cardinality(Observed(u))

\* the comments of a player that the step takes up for the first time
NewlyObserved(u) ==
    {i \in PlayerComments : /\ comments[i].author = u
                            /\ comments[i].id \notin processed_comments
                            /\ comments[i].id \in processed_comments'}

\* the comments a player has posted on the current submission
Posted(cs, u) == {i \in 1..Len(cs) : cs[i].author = u}

\* C24: each comment is processed at most once over any sequence of polls: no
\* id leaves processed_comments, and a step records an answer or updates a
\* player's statistics only for a comment whose id it adds to
\* processed_comments; so a player's total_questions never exceeds the number
\* of distinct comments that player posted (counted in the first round, whose
\* comments are all on the current submission).
C24_ProcessedOnce ==
    [][/\ processed_comments \subseteq processed_comments'
       /\ \A u \in Players :
            /\ TotalQuestions(user_stats', u) - TotalQuestions(user_stats, u)
                  <= Cardinality(NewlyObserved(u))
            /\ Cardinality(Recorded(u)') - Cardinality(Recorded(u))
                  <= Cardinality(NewlyObserved(u))
            /\ posts' = 1 =>
                  TotalQuestions(user_stats', u) <= Cardinality(Posted(comments', u))]_vars

\* alice's answer won in the first 5 s and its celebration failed, so the
\* round stayed open and later polls listed the processed comment again
C24_Witness ==
    /\ op = "monitor_comments"
    /\ waiting_for_answer
    /\ now >= 6
    /\ credited = {<<1, 1>>}
    /\ Len(question_answers) = 1
    /\ "alice" \in DOMAIN user_stats
    /\ user_stats["alice"].total_questions = 1
    /\ user_stats["alice"].total_score = 20

\* ------------------------------------------------------------------------
\* The statistics under updates, periodic resets and round timeouts
\* ------------------------------------------------------------------------
\* TriviaBot.reset_daily_stats(), reset_weekly_stats() or reset_monthly_stats()
CallResetStats ==
    /\ call.fn = "update_user_stats"
    /\ \E period \in {"daily", "weekly", "monthly"} :
          /\ user_stats' = CASE period = "daily" -> reset_daily_stats(user_stats)
                             [] period = "weekly" -> reset_weekly_stats(user_stats)
                             [] period = "monthly" -> reset_monthly_stats(user_stats)
          /\ op' = "reset_" \o period \o "_stats"
    /\ UNCHANGED <<current_question, current_answer, question_start_time, waiting_for_answer,
                   processed_comments, question_answers, db, run_vars, today, posts, comments,
                   next_id, hist_vars, call>>

\* the statements that end handle_timeout
CallTimeoutTail ==
    /\ call.fn = "update_user_stats"
    /\ user_stats' = timeout_tail(user_stats)
    /\ op' = "timeout_tail"
    /\ UNCHANGED <<current_question, current_answer, question_start_time, waiting_for_answer,
                   processed_comments, question_answers, db, run_vars, today, posts, comments,
                   next_id, hist_vars, call>>

NextScores ==
    \/ CallUpdateUserStats
    \/ CallResetStats
    \/ CallTimeoutTail

\* every operation of the bot that writes a player's statistics, in any order
SpecScores == InitStats /\ [][NextScores]_vars

\* C25: for every player, in every reachable state: correct_answers <=
\* total_questions, streak <= correct_answers, 11 * correct_answers <=
\* total_score <= 20 * correct_answers, and each of daily_score, weekly_score
\* and monthly_score is between 0 and total_score.
C25_StatsBounds ==
    \A u \in DOMAIN user_stats :
        /\ user_stats[u].correct_answers <= user_stats[u].total_questions
        /\ user_stats[u].streak <= user_stats[u].correct_answers
        /\ 11 * user_stats[u].correct_answers <= user_stats[u].total_score
        /\ user_stats[u].total_score <= 20 * user_stats[u].correct_answers
        /\ user_stats[u].daily_score \in 0..user_stats[u].total_score
        /\ user_stats[u].weekly_score \in 0..user_stats[u].total_score
        /\ user_stats[u].monthly_score \in 0..user_stats[u].total_score

\* alice won at 2 s and at 44 s and lost once, with a weekly reset between
\* the wins and a daily reset after them: the totals sit on both limits of
\* the reward and the buckets differ
C25_Witness ==
    /\ "alice" \in DOMAIN user_stats
    /\ user_stats["alice"].total_questions = 3
    /\ user_stats["alice"].correct_answers = 2
    /\ user_stats["alice"].total_score = 31
    /\ user_stats["alice"].monthly_score = 31
    /\ user_stats["alice"].weekly_score = 11
    /\ user_stats["alice"].daily_score = 0
=============================================================================
